---- MODULE Spec2Model ----
(***************************************************************************)
(* ai-text-sanitizer: sanitizeAiText (src/src/index.ts).                   *)
(*                                                                         *)
(* A JavaScript string is modelled as a sequence of UTF-16 code units,     *)
(* written as their numeric values (all code points used are in the BMP,   *)
(* so code unit = code point).  A JavaScript value is a record whose field *)
(* "type" is the result of typeof (with "null" kept apart from "object").  *)
(***************************************************************************)
EXTENDS Integers, Sequences, FiniteSets, TLC

(***************************************************************************)
(* Bounds of the exploration.                                              *)
(***************************************************************************)
MaxFrags == 3

(***************************************************************************)
(* Code units named in the source.                                         *)
(***************************************************************************)
BOM == 65279
LF == 10
CR == 13
SPACE == 32

(***************************************************************************)
(* Generic sequence helpers.                                               *)
(***************************************************************************)
RECURSIVE Flatten(_)
Flatten(ss) == IF ss = <<>> THEN <<>> ELSE Head(ss) \o Flatten(Tail(ss))

\* true iff the literal lit occurs in s starting at index i
LitAt(s, lit, i) ==
    /\ i + Len(lit) - 1 <= Len(s)
    /\ \A k \in 1..Len(lit) : s[i + k - 1] = lit[k]

\* index just after the longest run of code units of class cls starting at i
RECURSIVE RunEnd(_, _, _)
RunEnd(s, cls, i) ==
    IF i <= Len(s) /\ s[i] \in cls THEN RunEnd(s, cls, i + 1) ELSE i

(***************************************************************************)
(* The module-level patterns.  A pattern is a record; MatchAt gives the    *)
(* index just after the match that starts at i, or 0 when there is none.   *)
(***************************************************************************)
ASCII_CTRL_RE == [kind |-> "class", set |-> (0..8) \cup {11, 12} \cup (14..31) \cup {127}]

EXTRA_SPACE_RE == [kind |-> "spaces2", set |-> {SPACE}]

SPACE_LIKE_RE == [kind |-> "class", set |-> {160, 5760} \cup (8192..8202) \cup {8239, 8287, 12288}]

\* the line-ending pattern without its optional LF: /\r/g
CR_RE_WithoutLf == [kind |-> "class", set |-> {CR}]

CR_RE == [kind |-> "eol", set |-> {CR}]

CITATION_RE == [kind |-> "citation", set |-> 48..57]

\* the invisibles pattern with the directional marks U+200E-U+200F left out
invisiblesReWithoutMarks ==
    [kind |-> "class",
     set |-> {173, 6158} \cup (8203..8204) \cup (8234..8238)
             \cup (8288..8292) \cup (8294..8297) \cup {BOM}]

invisiblesRe ==
    [kind |-> "class",
     set |-> {173, 6158} \cup (8203..8204) \cup (8206..8207) \cup (8234..8238)
             \cup (8288..8292) \cup (8294..8297) \cup {BOM}]

\* the glue pattern with the zero-width joiner left out
emojiGlueReWithoutZwj == [kind |-> "class", set |-> 65024..65039]

emojiGlueRe == [kind |-> "class", set |-> {8205} \cup (65024..65039)]

\* the table with the em dash left out of its third entry
PRETTIES_WithoutEmDash ==
    << [re |-> [kind |-> "class", set |-> {8216, 8217, 8218}], repl |-> <<39>>],
       [re |-> [kind |-> "class", set |-> {8220, 8221, 8222}], repl |-> <<34>>],
       [re |-> [kind |-> "class", set |-> {8211}], repl |-> <<45>>],
       [re |-> [kind |-> "class", set |-> {8230}], repl |-> <<46, 46, 46>>],
       [re |-> [kind |-> "class", set |-> {8226, 9642, 9643, 9656, 9657, 9679}], repl |-> <<45>>] >>

PRETTIES ==
    << [re |-> [kind |-> "class", set |-> {8216, 8217, 8218}], repl |-> <<39>>],
       [re |-> [kind |-> "class", set |-> {8220, 8221, 8222}], repl |-> <<34>>],
       [re |-> [kind |-> "class", set |-> {8211, 8212}], repl |-> <<45>>],
       [re |-> [kind |-> "class", set |-> {8230}], repl |-> <<46, 46, 46>>],
       [re |-> [kind |-> "class", set |-> {8226, 9642, 9643, 9656, 9657, 9679}], repl |-> <<45>>] >>

\* "(oaicite:" and "){index=" and "}"
CiteOpen == <<40, 111, 97, 105, 99, 105, 116, 101, 58>>
CiteMid == <<41, 123, 105, 110, 100, 101, 120, 61>>
CiteClose == <<125>>

\*  / *(\(oaicite:\d+\){index=\d+})/ anchored at i
CitationAt(s, i) ==
    LET a == RunEnd(s, {SPACE}, i)
        b == a + Len(CiteOpen)
        c == RunEnd(s, CITATION_RE.set, b)
        d == c + Len(CiteMid)
        e == RunEnd(s, CITATION_RE.set, d)
    IN  IF /\ LitAt(s, CiteOpen, a)
           /\ c > b
           /\ LitAt(s, CiteMid, c)
           /\ e > d
           /\ LitAt(s, CiteClose, e)
        THEN e + 1
        ELSE 0

MatchAt(s, re, i) ==
    CASE re.kind = "class" -> IF s[i] \in re.set THEN i + 1 ELSE 0
      [] re.kind = "eol" ->
            IF s[i] = CR
            THEN (IF i + 1 <= Len(s) /\ s[i + 1] = LF THEN i + 2 ELSE i + 1)
            ELSE 0
      [] re.kind = "spaces2" ->
            LET e == RunEnd(s, re.set, i) IN IF e - i >= 2 THEN e ELSE 0
      [] re.kind = "citation" -> CitationAt(s, i)

\* String.prototype.match with a global pattern: the leftmost,
\* non-overlapping matches, as <<start, end>> pairs, scanning from index 1.
RECURSIVE MatchesFrom(_, _, _)
MatchesFrom(s, re, i) ==
    IF i > Len(s) THEN <<>>
    ELSE LET e == MatchAt(s, re, i)
         IN  IF e = 0 THEN MatchesFrom(s, re, i + 1)
             ELSE <<(<<i, e>>)>> \o MatchesFrom(s, re, e)

count(str, re) == Len(MatchesFrom(str, re, 1))

\* String.prototype.replace with a global pattern and a literal replacement
RECURSIVE ReplaceFrom(_, _, _, _)
ReplaceFrom(s, re, repl, i) ==
    IF i > Len(s) THEN <<>>
    ELSE LET e == MatchAt(s, re, i)
         IN  IF e = 0 THEN <<s[i]>> \o ReplaceFrom(s, re, repl, i + 1)
             ELSE repl \o ReplaceFrom(s, re, repl, e)

replace(str, re, repl) == ReplaceFrom(str, re, repl, 1)

(***************************************************************************)
(* String.prototype.normalize('NFKC'), on the code units the model uses:   *)
(* compatibility decomposition of a single code unit, then canonical       *)
(* composition of a base letter with a following U+0301.                   *)
(***************************************************************************)
COMBINING_ACUTE == 769

Decompose(ch) ==
    CASE ch = 8230 -> <<46, 46, 46>>
      [] ch \in ({160} \cup (8192..8202) \cup {8239, 8287, 12288}) -> <<SPACE>>
      [] ch \in 65281..65374 -> <<ch - 65248>>
      [] OTHER -> <<ch>>

\* primary composites of an ASCII letter and U+0301 (a e i o c n; d t x have none)
ComposeAcute ==
    [b \in {97, 101, 105, 111, 99, 110} |->
        CASE b = 97 -> 225 [] b = 101 -> 233 [] b = 105 -> 237
          [] b = 111 -> 243 [] b = 99 -> 263 [] b = 110 -> 324]

RECURSIVE ComposeFrom(_, _)
ComposeFrom(acc, rest) ==
    IF rest = <<>> THEN acc
    ELSE LET ch == Head(rest)
         IN  IF /\ ch = COMBINING_ACUTE
                /\ acc # <<>>
                /\ acc[Len(acc)] \in DOMAIN ComposeAcute
             THEN ComposeFrom(SubSeq(acc, 1, Len(acc) - 1) \o <<ComposeAcute[acc[Len(acc)]]>>,
                              Tail(rest))
             ELSE ComposeFrom(Append(acc, ch), Tail(rest))

normalize(str) ==
    ComposeFrom(<<>>, Flatten([k \in 1..Len(str) |-> Decompose(str[k])]))

\* Availability of String.prototype.normalize (Node >= 18 always has it)
hasNormalize == TRUE

(***************************************************************************)
(* String.prototype.trim: strips WhiteSpace and LineTerminator code units. *)
(***************************************************************************)
WhiteSpace ==
    {9, 10, 11, 12, 13, 32, 160, 5760} \cup (8192..8202)
        \cup {8232, 8233, 8239, 8287, 12288, BOM}

RECURSIVE TrimStart(_)
TrimStart(s) ==
    IF s # <<>> /\ Head(s) \in WhiteSpace THEN TrimStart(Tail(s)) ELSE s

RECURSIVE TrimEnd(_)
TrimEnd(s) ==
    IF s # <<>> /\ s[Len(s)] \in WhiteSpace
    THEN TrimEnd(SubSeq(s, 1, Len(s) - 1)) ELSE s

trim(s) == TrimEnd(TrimStart(s))

(***************************************************************************)
(* JavaScript values.                                                      *)
(***************************************************************************)
Undefined == [type |-> "undefined", b |-> FALSE, str |-> <<>>]
Null == [type |-> "null", b |-> FALSE, str |-> <<>>]
Bool(v) == [type |-> "boolean", b |-> v, str |-> <<>>]
Str(s) == [type |-> "string", b |-> FALSE, str |-> s]
Num == [type |-> "number", b |-> TRUE, str |-> <<>>]

\* ToBoolean
Truthy(v) ==
    CASE v.type = "boolean" -> v.b
      [] v.type = "string" -> v.str # <<>>
      [] v.type \in {"undefined", "null"} -> FALSE
      [] OTHER -> TRUE

\* an options argument: omitted (undefined), null, or an object with the two flags
NoOpts == [type |-> "undefined", keepEmoji |-> Undefined, collapseSpaces |-> Undefined]
NullOpts == [type |-> "null", keepEmoji |-> Undefined, collapseSpaces |-> Undefined]
Opts(ke, cs) == [type |-> "object", keepEmoji |-> ke, collapseSpaces |-> cs]

\* a destructuring default: used when the property is undefined
Default(v, d) == IF v.type = "undefined" THEN d ELSE v

(***************************************************************************)
(* Outcomes of a call.                                                     *)
(***************************************************************************)
ZeroChanges ==
    [removedInvisible |-> 0, removedCtrl |-> 0, removedCitations |-> 0,
     prettified |-> 0, collapsedSpaces |-> 0, total |-> 0]

Returned(cleaned, changes) ==
    [status |-> "returned", error |-> "", cleaned |-> cleaned, changes |-> changes]

Threw(msg) ==
    [status |-> "threw", error |-> msg, cleaned |-> <<>>, changes |-> ZeroChanges]

NoResult == [status |-> "none", error |-> "", cleaned |-> <<>>, changes |-> ZeroChanges]

(***************************************************************************)
(* sanitizeAiText.                                                         *)
(***************************************************************************)
\* number of code points whose own NFKC form differs from themselves
nfkcCount(str) ==
    Cardinality({k \in 1..Len(str) : normalize(<<str[k]>>) # <<str[k]>>})

\* The module-level patterns are objects that live across calls: each has a
\* lastIndex, 0 when the module is loaded.
ModulePatterns ==
    {CR_RE, CITATION_RE, ASCII_CTRL_RE, SPACE_LIKE_RE, EXTRA_SPACE_RE}
        \cup {PRETTIES[k].re : k \in 1..Len(PRETTIES)}

FreshLastIndex == [p \in ModulePatterns |-> 0]

\* str.match(re) and str.replace(re, ..) with a global pattern first set
\* re.lastIndex to 0, whatever it was ...
matchStart(li) == 0

\* the match position left in the pattern had count() used re.exec(str) once
lastIndexLeftByExec(str, re, start) ==
    LET m == MatchesFrom(str, re, start + 1)
    IN  IF m = <<>> THEN 0 ELSE m[1][2] - 1

\* ... and leave it 0 once no further match is found
lastIndexAfter(str, re, start) == 0

countAt(str, re, li) == Len(MatchesFrom(str, re, matchStart(li[re]) + 1))

replaceAt(str, re, repl, li) ==
    SubSeq(str, 1, matchStart(li[re]))
        \o ReplaceFrom(str, re, repl, matchStart(li[re]) + 1)

\* the lastIndex of the patterns after one match or replace with re
used(str, re, li) ==
    [li EXCEPT ![re] = lastIndexAfter(str, re, matchStart(li[re]))]

\* "if (before + n) text = text.replace(re, repl)", n being the count just
\* taken and li the lastIndex after taking it
replaceIfCounted(str, re, repl, li, before, n) ==
    IF before + n # 0
    THEN [n |-> n, text |-> replaceAt(str, re, repl, li), li |-> used(str, re, li)]
    ELSE [n |-> n, text |-> str, li |-> li]

\* "n = count(text, re); if (before + n) text = text.replace(re, repl)"
countThenReplace(str, re, repl, li, before) ==
    replaceIfCounted(str, re, repl, used(str, re, li), before, countAt(str, re, li))

\* the loop over PRETTIES from entry k on; st is [text, prettified, li]
RECURSIVE prettifyFrom(_, _)
prettifyFrom(st, k) ==
    IF k > Len(PRETTIES) THEN st
    ELSE LET g == countThenReplace(st.text, PRETTIES[k].re, PRETTIES[k].repl,
                                   st.li, st.prettified)
         IN  prettifyFrom([text |-> g.text, prettified |-> st.prettified + g.n,
                           li |-> g.li], k + 1)

\* the "Collapse redundant spaces" block; gives [text, collapsedSpaces, li]
collapseStage(str, collapseSpaces, li) ==
    IF Truthy(collapseSpaces)
    THEN LET g == countThenReplace(str, EXTRA_SPACE_RE, <<SPACE>>, li, 0)
         IN  [text |-> IF g.n # 0 THEN trim(g.text) ELSE str,
              collapsedSpaces |-> g.n,
              li |-> g.li]
    ELSE [text |-> str, collapsedSpaces |-> 0, li |-> li]

\* "if (hasBom) text = '\uFEFF' + text"
restoreBomDropped(hasBom, str) == str

restoreBom(hasBom, str) == IF hasBom THEN <<BOM>> \o str ELSE str

\* the tally: total is the sum of the five counters
tallyWithoutCollapsed(removedInvisible, removedCtrl, removedCitations, prettified, collapsedSpaces) ==
    [removedInvisible |-> removedInvisible,
     removedCtrl |-> removedCtrl,
     removedCitations |-> removedCitations,
     prettified |-> prettified,
     collapsedSpaces |-> collapsedSpaces,
     total |-> removedInvisible + removedCtrl + removedCitations + prettified]

tally(removedInvisible, removedCtrl, removedCitations, prettified, collapsedSpaces) ==
    [removedInvisible |-> removedInvisible,
     removedCtrl |-> removedCtrl,
     removedCitations |-> removedCitations,
     prettified |-> prettified,
     collapsedSpaces |-> collapsedSpaces,
     total |-> removedInvisible + removedCtrl + removedCitations
               + prettified + collapsedSpaces]

\* The stages of sanitizeAiText, in source order.  Each takes and gives the
\* locals of the function (the text so far and the counters) and the
\* lastIndex of the module-level patterns.
bomStage(str, li) ==
    [text |-> IF str[1] = BOM THEN Tail(str) ELSE str,
     hasBom |-> str[1] = BOM,
     li |-> li]

eolStage(st) ==
    LET g == countThenReplace(st.text, CR_RE, <<LF>>, st.li, 0)
    IN  [text |-> g.text,
         hasBom |-> st.hasBom,
         li |-> g.li,
         convertedEol |-> g.n]

citationStage(st) ==
    LET g == countThenReplace(st.text, CITATION_RE, <<>>, st.li, 0)
    IN  [text |-> g.text,
         hasBom |-> st.hasBom,
         li |-> g.li,
         convertedEol |-> st.convertedEol,
         removedCitations |-> g.n]

nfkcStage(st) ==
    [text |-> IF hasNormalize THEN normalize(st.text) ELSE st.text,
     hasBom |-> st.hasBom,
     li |-> st.li,
     convertedEol |-> st.convertedEol,
     removedCitations |-> st.removedCitations,
     nfkcChanged |-> IF hasNormalize THEN nfkcCount(st.text) ELSE 0]

\* invisiblesRe and emojiGlueRe are pattern literals inside the function: a
\* new object with lastIndex 0 in every call
invisibleStage(st) ==
    [text |-> replace(st.text, invisiblesRe, <<>>),
     hasBom |-> st.hasBom,
     li |-> st.li,
     convertedEol |-> st.convertedEol,
     removedCitations |-> st.removedCitations,
     nfkcChanged |-> st.nfkcChanged,
     removedInvisible |-> count(st.text, invisiblesRe)]

emojiStage(st, keepEmoji) ==
    IF ~Truthy(keepEmoji)
    THEN [st EXCEPT !.text = replace(st.text, emojiGlueRe, <<>>),
                    !.removedInvisible = st.removedInvisible + count(st.text, emojiGlueRe)]
    ELSE st

ctrlStage(st) ==
    LET g == countThenReplace(st.text, ASCII_CTRL_RE, <<>>, st.li, 0)
    IN  [text |-> g.text,
         hasBom |-> st.hasBom,
         li |-> g.li,
         convertedEol |-> st.convertedEol,
         removedCitations |-> st.removedCitations,
         nfkcChanged |-> st.nfkcChanged,
         removedInvisible |-> st.removedInvisible,
         removedCtrl |-> g.n]

spaceLikeStage(st) ==
    LET g == countThenReplace(st.text, SPACE_LIKE_RE, <<SPACE>>, st.li, 0)
    IN  [text |-> g.text,
         hasBom |-> st.hasBom,
         li |-> g.li,
         removedCitations |-> st.removedCitations,
         removedInvisible |-> st.removedInvisible,
         removedCtrl |-> st.removedCtrl,
         prettified |-> g.n + st.nfkcChanged + st.convertedEol]

prettyStage(st) ==
    LET pr == prettifyFrom([text |-> st.text, prettified |-> st.prettified,
                            li |-> st.li], 1)
    IN  [st EXCEPT !.text = pr.text, !.prettified = pr.prettified, !.li = pr.li]

finishStage(st, cs) ==
    [result |-> Returned(restoreBom(st.hasBom, cs.text),
                         tally(st.removedInvisible, st.removedCtrl, st.removedCitations,
                               st.prettified, cs.collapsedSpaces)),
     li |-> cs.li]

\* the body of sanitizeAiText once text is known to be a non-empty string
pipeline(str, keepEmoji, collapseSpaces, li) ==
    LET st == prettyStage(spaceLikeStage(ctrlStage(emojiStage(invisibleStage(
                  nfkcStage(citationStage(eolStage(bomStage(str, li))))), keepEmoji))))
    IN  finishStage(st, collapseStage(st.text, collapseSpaces, st.li))

\* sanitizeAiText(text, opts) called while the patterns have lastIndex li:
\* the outcome of the call and the lastIndex it leaves
sanitizeAiText(text, opts, li) ==
    IF text.type # "string"
    THEN [result |-> Threw("TypeError: text must be a string"), li |-> li]
    ELSE IF opts.type = "null"
    THEN [result |-> Threw("TypeError: cannot destructure null"), li |-> li]
    ELSE IF ~Truthy(text) THEN [result |-> Returned(<<>>, ZeroChanges), li |-> li]
    ELSE pipeline(text.str,
                  Default(opts.keepEmoji, Bool(TRUE)),
                  Default(opts.collapseSpaces, Bool(TRUE)),
                  li)

(***************************************************************************)
(* Inputs.  A text is a concatenation of at most MaxFrags fragments, or    *)
(* one of the documented examples; the first argument may also be a value  *)
(* that is not a string.                                                   *)
(***************************************************************************)
\* "(oaicite:1" and "){index=1}"
CiteHead == CiteOpen \o <<49>>
CiteTail == CiteMid \o <<49>> \o CiteClose

Fragments ==
    { CiteHead, CiteTail,
      <<SPACE>>, <<101>>, <<COMBINING_ACUTE>>,
      <<8203>>, <<8205>>, <<8230>>,
      <<CR>>, <<1>>, <<5760>>, <<BOM>> }

RECURSIVE Texts(_)
Texts(n) ==
    IF n = 0 THEN {<<>>}
    ELSE LET shorter == Texts(n - 1)
         IN  shorter \cup {t \o f : t \in shorter, f \in Fragments}

\* README.md Usage: U+FEFF "Hello U+200B  world U+2026 " (oaicite:5){index=5}
ReadmeInput ==
    <<BOM, 34, 72, 101, 108, 108, 111, 8203, 32, 119, 111, 114, 108, 100, 8230, 34, 32>>
        \o CiteOpen \o <<53>> \o CiteMid \o <<53>> \o CiteClose

Examples == {ReadmeInput}

TextArgs == {Str(t) : t \in Texts(MaxFrags) \cup Examples} \cup {Num, Undefined, Null}

OptsArgs ==
    {NoOpts, NullOpts}
        \cup {Opts(Bool(FALSE), Undefined), Opts(Undefined, Bool(FALSE)),
              Opts(Bool(FALSE), Bool(FALSE))}

(***************************************************************************)
(* The state machine: a caller holds arguments, calls sanitizeAiText, and  *)
(* may pass the cleaned text back in as the text of a further call.  The   *)
(* lastIndex of the module-level patterns is the state of the module.      *)
(***************************************************************************)
MaxCalls == 2

VARIABLES text, opts, result, calls, lastIndex

vars == <<text, opts, result, calls, lastIndex>>

Init ==
    /\ text \in TextArgs
    /\ opts \in OptsArgs
    /\ result = NoResult
    /\ calls = 0
    /\ lastIndex = FreshLastIndex

\* the call ends with outcome out.result and leaves the patterns with out.li
Ends(out) ==
    /\ result' = out.result
    /\ lastIndex' = out.li

\* one invocation of sanitizeAiText(text, opts)
Call ==
    /\ result.status = "none"
    /\ Ends(sanitizeAiText(text, opts, lastIndex))
    /\ calls' = calls + 1
    /\ UNCHANGED <<text, opts>>

\* the caller feeds the cleaned text into the next call
Resubmit ==
    /\ result.status = "returned"
    /\ calls < MaxCalls
    /\ text' = Str(result.cleaned)
    /\ result' = NoResult
    /\ UNCHANGED <<opts, calls, lastIndex>>

Next == Call \/ Resubmit

Spec == Init /\ [][Next]_vars

(***************************************************************************)
(* A second specification for the punctuation table: texts over the        *)
(* fifteen glyphs of the table and one plain letter.                       *)
(***************************************************************************)
Apostrophes == {8216, 8217, 8218}
DoubleQuotes == {8220, 8221, 8222}
Dashes == {8211, 8212}
Ellipsis == {8230}
Bullets == {8226, 9642, 9643, 9656, 9657, 9679}
Glyphs == Apostrophes \cup DoubleQuotes \cup Dashes \cup Ellipsis \cup Bullets

PrettyFragments == {<<g>> : g \in Glyphs \cup {101}}

RECURSIVE PrettyTexts(_)
PrettyTexts(n) ==
    IF n = 0 THEN {<<>>}
    ELSE LET shorter == PrettyTexts(n - 1)
         IN  shorter \cup {t \o f : t \in shorter, f \in PrettyFragments}

InitPretty ==
    /\ text \in {Str(t) : t \in PrettyTexts(MaxFrags)}
    /\ opts \in {NoOpts, Opts(Undefined, Bool(FALSE))}
    /\ result = NoResult
    /\ calls = 0
    /\ lastIndex = FreshLastIndex

SpecPretty == InitPretty /\ [][Next]_vars

(***************************************************************************)
(* Properties.                                                             *)
(***************************************************************************)
IsString == text.type = "string"
HasReturned == result.status = "returned"
KeepEmojiOn == Truthy(Default(opts.keepEmoji, Bool(TRUE)))
CollapseOn == Truthy(Default(opts.collapseSpaces, Bool(TRUE)))
chg == result.changes

\* C1: whenever a call returns, total is the sum of the other five counters
\* and all six counters are natural numbers (the empty input included).
C1_SumInvariant ==
    HasReturned =>
        /\ chg.total = chg.removedInvisible + chg.removedCtrl + chg.removedCitations
                      + chg.prettified + chg.collapsedSpaces
        /\ \A f \in DOMAIN chg : chg[f] \in Nat

C1_Witness ==
    /\ HasReturned
    /\ chg.removedInvisible > 0
    /\ chg.collapsedSpaces > 0
    /\ chg.prettified > 0

C1_WitnessEmpty == HasReturned /\ text = Str(<<>>) /\ chg.total = 0

\* C2: with default options a second pass over the cleaned text of a first
\* pass returns that text unchanged.
C2_Idempotent ==
    (calls >= 2 /\ HasReturned /\ opts = NoOpts) => result.cleaned = text.str

StripGlue(s) == SelectSeq(s, LAMBDA c : c \notin ({8205} \cup (65024..65039)))

DefaultLeavesUnchanged ==
    /\ IsString
    /\ sanitizeAiText(text, NoOpts, lastIndex).result.cleaned = text.str

\* C4 as stated: a text the default call leaves unchanged is returned as is
\* while keepEmoji is on, and with exactly its glue deleted when it is off.
C4_Original ==
    (HasReturned /\ DefaultLeavesUnchanged) =>
        /\ KeepEmojiOn => result.cleaned = text.str
        /\ ~KeepEmojiOn => result.cleaned = StripGlue(text.str)

\* C4 amended: the same, for keepEmoji off only when collapseSpaces is off
\* or deleting the glue leaves no run of two or more ASCII spaces.
C4_EmojiGlue ==
    (HasReturned /\ DefaultLeavesUnchanged) =>
        /\ KeepEmojiOn => result.cleaned = text.str
        /\ (/\ ~KeepEmojiOn
            /\ (~CollapseOn \/ count(StripGlue(text.str), EXTRA_SPACE_RE) = 0))
           => result.cleaned = StripGlue(text.str)

C4_Witness ==
    /\ HasReturned
    /\ DefaultLeavesUnchanged
    /\ ~KeepEmojiOn
    /\ \E k \in 1..Len(text.str) : text.str[k] = 8205
    /\ result.cleaned = StripGlue(text.str)
    /\ result.cleaned # text.str

\* C5: a call throws if and only if text is not a string; with a string it
\* returns whatever is passed for the options.
C5_ErrorContract ==
    result.status # "none" => (result.status = "threw" <=> ~IsString)

\* the cleaned text without a restored leading U+FEFF
CleanedBody ==
    IF IsString /\ text.str # <<>> /\ text.str[1] = BOM /\ result.cleaned # <<>>
    THEN Tail(result.cleaned) ELSE result.cleaned

\* C6: with collapseSpaces on, the cleaned text neither starts nor ends with
\* white space; with collapseSpaces off, collapsedSpaces is 0.
C6_Trimmed ==
    (HasReturned /\ IsString) =>
        /\ CollapseOn =>
              \/ CleanedBody = <<>>
              \/ /\ CleanedBody[1] \notin WhiteSpace
                 /\ CleanedBody[Len(CleanedBody)] \notin WhiteSpace
        /\ ~CollapseOn => chg.collapsedSpaces = 0

\* C7: a call that returns a cleaned text different from its input reports
\* a total greater than 0.
C7_EveryChangeCounted ==
    (HasReturned /\ IsString /\ result.cleaned # text.str) => chg.total > 0

\* the replacement the table prescribes for one code unit
PrettyOf(c) ==
    CASE c \in Apostrophes -> <<39>>
      [] c \in DoubleQuotes -> <<34>>
      [] c \in Dashes -> <<45>>
      [] c \in Ellipsis -> <<46, 46, 46>>
      [] c \in Bullets -> <<45>>
      [] OTHER -> <<c>>

NumGlyphs(s) == Cardinality({k \in 1..Len(s) : s[k] \in Glyphs})

\* C8: every glyph of the table is replaced by its ASCII form, none is left
\* in the cleaned text, and each occurrence adds exactly 1 to prettified.
C8_Prettified ==
    (HasReturned /\ IsString) =>
        /\ result.cleaned = Flatten([k \in 1..Len(text.str) |-> PrettyOf(text.str[k])])
        /\ NumGlyphs(result.cleaned) = 0
        /\ chg.prettified = NumGlyphs(text.str)

C8_Witness ==
    /\ HasReturned
    /\ text.str = <<8230, 8212, 9679>>
    /\ result.cleaned = <<46, 46, 46, 45, 45>>
    /\ chg.prettified = 3

\* C9: the cleaned text contains no citation placeholder, and
\* removedCitations is the number of placeholders of the input.
C9_NoCitationLeft ==
    (HasReturned /\ IsString) =>
        /\ count(result.cleaned, CITATION_RE) = 0
        /\ chg.removedCitations = count(text.str, CITATION_RE)

\* C10: the README usage example returns "Hello world..." in straight
\* quotes and the tally 2, 0, 1, 3, 0, total 6.
C10_Readme ==
    (HasReturned /\ text = Str(ReadmeInput) /\ opts = NoOpts) =>
        /\ result.cleaned = <<34, 72, 101, 108, 108, 111, 32, 119, 111, 114, 108, 100, 46, 46, 46, 34>>
        /\ chg = [removedInvisible |-> 2, removedCtrl |-> 0, removedCitations |-> 1,
                 prettified |-> 3, collapsedSpaces |-> 0, total |-> 6]

(***************************************************************************)
(* A third specification for the cleanliness of the output: texts over     *)
(* invisible, control, exotic-space and glue code points.                  *)
(***************************************************************************)
CleanFragments ==
    { <<173>>, <<8203>>, <<8207>>, <<BOM>>,
      <<1>>, <<127>>, <<9>>, <<CR>>,
      <<160>>, <<5760>>, <<12288>>,
      <<8205>>, <<65039>>, <<101>> }

RECURSIVE CleanTexts(_)
CleanTexts(n) ==
    IF n = 0 THEN {<<>>}
    ELSE LET shorter == CleanTexts(n - 1)
         IN  shorter \cup {t \o f : t \in shorter, f \in CleanFragments}

InitClean ==
    /\ text \in {Str(t) : t \in CleanTexts(MaxFrags)}
    /\ opts \in {NoOpts, Opts(Bool(FALSE), Undefined)}
    /\ result = NoResult
    /\ calls = 0
    /\ lastIndex = FreshLastIndex

SpecClean == InitClean /\ [][Next]_vars

RemovalSet ==
    {173, 6158, 8203, 8204, 8206, 8207} \cup (8234..8238) \cup (8288..8292)
        \cup (8294..8297) \cup {BOM}
ControlSet == ((0..31) \ {9, 10}) \cup {127}
ExoticSpaces == {160, 5760} \cup (8192..8202) \cup {8239, 8287, 12288}
GlueSet == {8205} \cup (65024..65039)

\* C11: after an optional restored leading U+FEFF the cleaned text holds no
\* code point of the invisible removal set, no C0 control or DEL other than
\* TAB and LF, and no exotic space; with keepEmoji off it also holds no
\* U+200D and no U+FE00-U+FE0F.
C11_Clean ==
    (HasReturned /\ IsString) =>
        \A k \in 1..Len(CleanedBody) :
            /\ CleanedBody[k] \notin (RemovalSet \cup ControlSet \cup ExoticSpaces)
            /\ ~KeepEmojiOn => CleanedBody[k] \notin GlueSet

C11_Witness ==
    /\ HasReturned
    /\ ~KeepEmojiOn
    /\ text.str = <<8207, 127, 65039>>
    /\ result.cleaned = <<>>
    /\ chg.removedInvisible = 2
    /\ chg.removedCtrl = 1

(***************************************************************************)
(* A fourth specification for line endings: texts over CR, LF, a space, a  *)
(* plain letter and U+FEFF.                                                *)
(***************************************************************************)
EolFragments == { <<CR>>, <<LF>>, <<SPACE>>, <<101>>, <<BOM>> }

RECURSIVE EolTexts(_)
EolTexts(n) ==
    IF n = 0 THEN {<<>>}
    ELSE LET shorter == EolTexts(n - 1)
         IN  shorter \cup {t \o f : t \in shorter, f \in EolFragments}

InitEol ==
    /\ text \in {Str(t) : t \in EolTexts(MaxFrags + 1)}
    /\ opts \in {NoOpts, Opts(Undefined, Bool(FALSE))}
    /\ result = NoResult
    /\ calls = 0
    /\ lastIndex = FreshLastIndex

SpecEol == InitEol /\ [][Next]_vars

\* the input text without its leading U+FEFF
TextBody ==
    IF text.str # <<>> /\ text.str[1] = BOM THEN Tail(text.str) ELSE text.str

NumOf(s, c) == Cardinality({k \in 1..Len(s) : s[k] = c})

\* number of CR immediately followed by LF
NumCrLf(s) == Cardinality({k \in 1..Len(s) : s[k] = CR /\ k < Len(s) /\ s[k + 1] = LF})

\* each CR+LF pair and each lone CR written as one LF, all else kept
RECURSIVE EolMap(_)
EolMap(s) ==
    IF s = <<>> THEN <<>>
    ELSE IF Head(s) = CR
         THEN IF Len(s) >= 2 /\ s[2] = LF
              THEN <<LF>> \o EolMap(Tail(Tail(s)))
              ELSE <<LF>> \o EolMap(Tail(s))
         ELSE <<Head(s)>> \o EolMap(Tail(s))

\* prettified is the number of CR; the other counters count only what is not
\* a line ending (U+FEFF after the first code unit, runs of spaces)
EolCounters ==
    /\ chg.prettified = NumOf(TextBody, CR)
    /\ chg.removedCtrl = 0
    /\ chg.removedCitations = 0
    /\ chg.removedInvisible = NumOf(TextBody, BOM)
    /\ chg.collapsedSpaces =
          IF CollapseOn
          THEN count(SelectSeq(TextBody, LAMBDA c : c # BOM), EXTRA_SPACE_RE)
          ELSE 0

\* C13 as stated: the cleaned text has no CR, it has one LF for every CR+LF
\* pair, lone CR and lone LF of the input, and each rewritten sequence adds
\* 1 to prettified and to no other counter.
C13_Original ==
    (HasReturned /\ IsString) =>
        /\ NumOf(result.cleaned, CR) = 0
        /\ NumOf(result.cleaned, LF)
              = NumOf(TextBody, CR) + NumOf(TextBody, LF) - NumCrLf(TextBody)
        /\ EolCounters

\* the input after the line-ending rewrite, without U+FEFF
EolMapped == SelectSeq(EolMap(TextBody), LAMBDA c : c # BOM)

\* C13 amended: the same, except that when the space-collapsing stage
\* collapses a run, its trim removes the line feeds at the very start and
\* end of the text; otherwise the text is the input with each CR+LF pair and
\* lone CR written as one LF.
C13_LineEndings ==
    (HasReturned /\ IsString) =>
        /\ NumOf(result.cleaned, CR) = 0
        /\ IF CollapseOn /\ chg.collapsedSpaces > 0
           THEN NumOf(result.cleaned, LF) = NumOf(trim(EolMapped), LF)
           ELSE /\ CleanedBody = EolMapped
                /\ NumOf(result.cleaned, LF)
                      = NumOf(TextBody, CR) + NumOf(TextBody, LF) - NumCrLf(TextBody)
        /\ EolCounters

C13_Witness ==
    /\ HasReturned
    /\ text.str = <<CR, LF, 101, CR>>
    /\ result.cleaned = <<LF, 101, LF>>
    /\ chg.prettified = 2
    /\ chg.total = 2

(***************************************************************************)
(* A fifth specification for sequences of calls in one module instance:    *)
(* after any outcome, a throw included, the caller may call again with new *)
(* arguments.                                                              *)
(***************************************************************************)
CallTexts == {Str(t) : t \in Texts(MaxFrags - 2)} \cup {Num}
CallOpts == {NoOpts, NullOpts, Opts(Bool(FALSE), Bool(FALSE))}

InitCalls ==
    /\ text \in CallTexts
    /\ opts \in CallOpts
    /\ result = NoResult
    /\ calls = 0
    /\ lastIndex = FreshLastIndex

\* the caller picks the arguments of its next call
NewArgs ==
    /\ result.status # "none"
    /\ calls < MaxCalls
    /\ text' \in CallTexts
    /\ opts' \in CallOpts
    /\ result' = NoResult
    /\ UNCHANGED <<calls, lastIndex>>

NextCalls == Call \/ Resubmit \/ NewArgs

SpecCalls == InitCalls /\ [][NextCalls]_vars

\* C14: whatever calls came before, a call gives the outcome that the same
\* arguments give in a freshly loaded module, leaves every module-level
\* pattern with lastIndex 0, and leaves its arguments as they were.
C14_Stateless ==
    [][(result.status = "none" /\ result'.status # "none") =>
          /\ result' = sanitizeAiText(text, opts, FreshLastIndex).result
          /\ lastIndex' = FreshLastIndex
          /\ opts' = opts
          /\ text' = text]_vars

C14_Witness ==
    /\ calls = 2
    /\ HasReturned
    /\ chg.removedInvisible = 1
    /\ lastIndex = FreshLastIndex

(***************************************************************************)
(* The implementation that substitutes in every stage whether or not the   *)
(* stage counted a match (the earlier JavaScript version of the stages     *)
(* from the control characters on).                                        *)
(***************************************************************************)
ctrlStageAlways(st) ==
    [text |-> replace(st.text, ASCII_CTRL_RE, <<>>),
     hasBom |-> st.hasBom,
     li |-> st.li,
     convertedEol |-> st.convertedEol,
     removedCitations |-> st.removedCitations,
     nfkcChanged |-> st.nfkcChanged,
     removedInvisible |-> st.removedInvisible,
     removedCtrl |-> count(st.text, ASCII_CTRL_RE)]

spaceLikeStageAlways(st) ==
    [text |-> replace(st.text, SPACE_LIKE_RE, <<SPACE>>),
     hasBom |-> st.hasBom,
     li |-> st.li,
     removedCitations |-> st.removedCitations,
     removedInvisible |-> st.removedInvisible,
     removedCtrl |-> st.removedCtrl,
     prettified |-> count(st.text, SPACE_LIKE_RE) + st.nfkcChanged + st.convertedEol]

RECURSIVE prettifyAlwaysFrom(_, _)
prettifyAlwaysFrom(st, k) ==
    IF k > Len(PRETTIES) THEN st
    ELSE prettifyAlwaysFrom(
             [text |-> replace(st.text, PRETTIES[k].re, PRETTIES[k].repl),
              prettified |-> st.prettified + count(st.text, PRETTIES[k].re),
              li |-> st.li], k + 1)

prettyStageAlways(st) ==
    [st EXCEPT !.text = prettifyAlwaysFrom([text |-> st.text, prettified |-> st.prettified,
                                            li |-> st.li], 1).text,
               !.prettified = prettifyAlwaysFrom([text |-> st.text,
                                                  prettified |-> st.prettified,
                                                  li |-> st.li], 1).prettified]

\* "text = text.replace(EXTRA_SPACE_RE, ' ').trim()" with no test of the count
collapseStageAlways(str, collapseSpaces, li) ==
    IF Truthy(collapseSpaces)
    THEN [text |-> trim(replace(str, EXTRA_SPACE_RE, <<SPACE>>)),
          collapsedSpaces |-> count(str, EXTRA_SPACE_RE),
          li |-> li]
    ELSE [text |-> str, collapsedSpaces |-> 0, li |-> li]

finishAlways(st, collapseSpaces) ==
    finishStage(st, collapseStageAlways(st.text, collapseSpaces, st.li))

pipelineAlways(str, keepEmoji, collapseSpaces, li) ==
    finishAlways(prettyStageAlways(spaceLikeStageAlways(ctrlStageAlways(emojiStage(
                     invisibleStage(nfkcStage(citationStage(eolStage(bomStage(str, li))))),
                     keepEmoji)))),
                 collapseSpaces)

sanitizeAiTextAlways(t, o, li) ==
    IF t.type # "string"
    THEN [result |-> Threw("TypeError: text must be a string"), li |-> li]
    ELSE IF o.type = "null"
    THEN [result |-> Threw("TypeError: cannot destructure null"), li |-> li]
    ELSE IF ~Truthy(t) THEN [result |-> Returned(<<>>, ZeroChanges), li |-> li]
    ELSE pipelineAlways(t.str,
                        Default(o.keepEmoji, Bool(TRUE)),
                        Default(o.collapseSpaces, Bool(TRUE)),
                        li)

\* C12: a call that returned gives the cleaned text and the tally that the
\* implementation substituting in every stage, and trimming whenever
\* collapseSpaces is on, gives for the same text and options.
C12_SameAsUnconditional ==
    (HasReturned /\ IsString) =>
        result = sanitizeAiTextAlways(text, opts, lastIndex).result

====
